---- MODULE Spec2Model ----
(***************************************************************************)
(* Gen-Spark counter: a rate-limited proxy in front of a completion        *)
(* provider.  The model covers the two request pipelines the repository    *)
(* ships for POST /api/gen-spark:                                          *)
(*   "server_js" : src/server.js:79-205, the callback pipeline (the quota  *)
(*                 read's async callback fires the counter write without   *)
(*                 waiting for it and awaits the provider inside the       *)
(*                 callback, outside the handler's try/catch);             *)
(*   "part_001"  : src/unnamed/part_001:78-160, the promise pipeline (the  *)
(*                 quota read and the counter write are awaited inside one *)
(*                 try/catch).                                             *)
(*   "part_000_memory" : src/unnamed/part_000:121-195, the pipeline over   *)
(*                 an in-memory requests table without a key.              *)
(* together with GET /api/credits, GET /api/history and                    *)
(* POST /api/reset-counts, over the two SQLite tables                      *)
(* requests(ip, count, date) and history(...).                             *)
(* node-sqlite3 runs statements asynchronously: a statement is submitted   *)
(* by the handler and executed later, so every statement is two steps.     *)
(***************************************************************************)
EXTENDS Integers, Sequences, FiniteSets, TLC

(* ---- bounds of the model ---- *)
MaxExchanges == 2      \* primary requests per behaviour
MaxClock == 1          \* last instant of the host clock
TicksPerDay == 1       \* instants per calendar day
MaxHistLen == 4        \* longest caller-supplied history (assembly)
MaxRows == 6           \* most rows of the history table (history query)

(* ---- program constants ---- *)
DAILY_LIMIT == 10      \* src/server.js:103, "count >= 10"
HISTORY_WINDOW == 3    \* src/server.js:121, history.slice(-3)
HISTORY_LIMIT == 5     \* src/server.js:245, LIMIT 5

Identities == {"1.2.3.4", "5.6.7.8"}
Exchanges == 1..MaxExchanges
Variants == {"server_js", "part_001"}

\* src/unnamed/part_000:121-195, the pipeline over an in-memory table
\* requests(ip, count, date) without a key, which answers a provider failure
\* from a try/catch around the fetch
MemoryVariant == "part_000_memory"
AllVariants == Variants \cup {MemoryVariant}

(* JavaScript values that are not strings *)
Undefined == "<undefined>"
Null == "<null>"
Falsy == {Undefined, Null, ""}

Contents == {"hi there"}

\* messages of the errors the pipelines catch: the provider's error text or
\* the transport error (error.message after a failed fetch), the SQLite error
\* of a failed statement, the TypeError of a property read on null/undefined
ErrorTexts == {"model overloaded", "ECONNRESET"}
StorageErrorText == "SQLITE_BUSY: database is locked"
TypeErrorText == "Cannot read properties of null"
systemPrompt == "Gen Spark AI persona"

VARIABLES
  variant,    \* which pipeline is deployed
  clock,      \* the host clock (new Date())
  requests,   \* table requests: set of rows [ip, count, date]
  history,    \* table history: rows in id order (AUTOINCREMENT)
  ex,         \* the exchanges: one record per primary request
  admitted,   \* ghost: requests admitted per (ip, day) since the last reset
  credits,    \* the last answer of GET /api/credits
  asm,        \* conversation assembly on its own: input and result
  devMode,    \* process.env.NODE_ENV === 'development'
  recent      \* the last answer of GET /api/history

vars == <<variant, clock, requests, history, ex, admitted, credits, asm,
          devMode, recent>>

(* ---- helpers ---- *)
Max(a, b) == IF a >= b THEN a ELSE b
Min(a, b) == IF a <= b THEN a ELSE b

\* new Date().toISOString().split('T')[0]: the date part of the timestamp
DayOf(t) == t \div TicksPerDay
Days == 0..DayOf(MaxClock)

(* ---- the record store (SQLite) ---- *)

\* SELECT count FROM requests WHERE ip = ? AND date = ?, as db.get hands it to
\* its callback: the first matching row, or no row (undefined).
SelectCount(tbl, ip, date) ==
  LET hit == {r \in tbl : r.ip = ip /\ r.date = date}
  IN  IF hit = {} THEN <<>> ELSE <<CHOOSE r \in hit : TRUE>>

\* the statement on a table whose key is the date alone: the row of the same
\* date is replaced, whichever identity it belongs to
InsertOrReplaceByDate(tbl, ip, count, date) ==
  {r \in tbl : r.date # date}
    \cup {[ip |-> ip, count |-> count, date |-> date]}

\* INSERT OR REPLACE INTO requests (ip, count, date) VALUES (?, ?, ?) under
\* PRIMARY KEY (ip, date): the row of the same key is replaced.
InsertOrReplace(tbl, ip, count, date) ==
  {r \in tbl : ~(r.ip = ip /\ r.date = date)}
    \cup {[ip |-> ip, count |-> count, date |-> date]}

\* The same statement on part_000's table requests(ip, count, date), which
\* has no key: nothing conflicts, so a row is added.  (Equal rows are held
\* once.)
InsertNoKey(tbl, ip, count, date) ==
  tbl \cup {[ip |-> ip, count |-> count, date |-> date]}

\* The rows db.get may hand to its callback: no row, or the first row of the
\* result, which of several matching rows comes first being up to SQLite.
SelectFirst(tbl, ip, date) ==
  LET hit == {r \in tbl : r.ip = ip /\ r.date = date}
  IN  IF hit = {} THEN {<<>>} ELSE {<<r>> : r \in hit}

\* INSERT INTO history (ip, prompt, response, timestamp) VALUES (?, ?, ?, ?)
InsertHistory(tbl, row) == Append(tbl, row)

\* DELETE FROM requests
DeleteRequests(tbl) == {}

\* const count = row ? row.count : 0
CountOf(row) == IF row = <<>> THEN 0 ELSE row[1].count

(* ---- conversation assembly ---- *)

\* One entry of the caller's history array: an object with (possibly missing)
\* prompt and response, or null.
NullEntry == [kind |-> "null"]
Turn(p, r) == [kind |-> "object", prompt |-> p, response |-> r]

\* x || ''
OrEmpty(x) == IF x \in Falsy THEN "" ELSE x

\* history.slice(0, n): the oldest n entries
SliceFirst(s, n) == SubSeq(s, 1, Min(n, Len(s)))

\* history.slice(-n)
SliceLast(s, n) == SubSeq(s, Max(1, Len(s) - n + 1), Len(s))

RECURSIVE Flat(_)
\* [].flat() / flatMap: the concatenation of the mapped arrays
Flat(ss) == IF ss = <<>> THEN <<>> ELSE Head(ss) \o Flat(Tail(ss))

Msg(role, content) == [role |-> role, content |-> content]

\* server.js: h => { try { return [user, assistant] } catch (e) { return [] } }
\* reading h.prompt of null throws, which the catch turns into no messages
PairServer(h) ==
  IF h.kind = "null" THEN <<>>
  ELSE <<Msg("user", OrEmpty(h.prompt)), Msg("assistant", OrEmpty(h.response))>>

\* part_001: h => [user: h.prompt, assistant: h.response], no coercion
PairPart001(h) == <<Msg("user", h.prompt), Msg("assistant", h.response)>>

\* the messages array of server.js
MessagesServer(hist, prompt) ==
  <<Msg("system", systemPrompt)>>
    \o Flat([i \in 1..Len(SliceLast(hist, HISTORY_WINDOW)) |->
               PairServer(SliceLast(hist, HISTORY_WINDOW)[i])])
    \o <<Msg("user", OrEmpty(prompt))>>

\* part_001: the flatMap callback throws a TypeError on a null entry
AssemblyThrows(hist) ==
  \E i \in 1..Len(SliceLast(hist, HISTORY_WINDOW)) :
     SliceLast(hist, HISTORY_WINDOW)[i].kind = "null"

\* the messages array of part_001 (when the assembly does not throw)
MessagesPart001(hist, prompt) ==
  <<Msg("system", systemPrompt)>>
    \o Flat([i \in 1..Len(SliceLast(hist, HISTORY_WINDOW)) |->
               PairPart001(SliceLast(hist, HISTORY_WINDOW)[i])])
    \o <<Msg("user", prompt)>>

Messages(v, hist, prompt) ==
  IF v = "server_js" THEN MessagesServer(hist, prompt)
  ELSE MessagesPart001(hist, prompt)

(* ---- one exchange (POST /api/gen-spark) ---- *)

\* pc: idle -> get (db.get submitted) -> got (its callback is due)
\*      -> run (part_001 only: awaiting the counter write) -> fetch
\*      -> done (a response was sent) | unhandled (the async callback's
\*         promise rejected with nobody handling it) | hung (an awaited
\*         promise never settles)
IdleExchange ==
  [pc |-> "idle", ip |-> "", today |-> 0, prompt |-> Undefined, hist |-> <<>>,
   err |-> FALSE, row |-> <<>>, count |-> 0, write |-> "none",
   messages |-> <<>>, calls |-> 0, upstream |-> "none", insert |-> "none",
   entry |-> <<>>, responses |-> 0, status |-> 0, body |-> <<>>]

\* res.status(code).json(body): one more response on the wire
Respond(x, code, body) ==
  [x EXCEPT !.responses = @ + 1, !.status = code, !.body = body]

ErrorBody(msg) == [error |-> msg]

\* part_001: catch (error) { res.status(500).json({ error: '...',
\*   ...(process.env.NODE_ENV === 'development' && { details: error.message })
\* }) }
CatchBody(msg) ==
  IF devMode THEN [error |-> "server error", details |-> msg]
  ELSE [error |-> "server error"]

\* a remaining computed from the count before the increment
SuccessBodyStale(text, count) ==
  [response |-> text, remaining |-> DAILY_LIMIT - count]

SuccessBody(text, count) ==
  [response |-> text, remaining |-> DAILY_LIMIT - (count + 1)]

\* What the provider call can come to.  network: fetch rejects (transport
\* error or timeout); http_error: a non-2xx status; malformed: 2xx whose body
\* has no choices[0].message; stall: the headers arrive and the body never
\* does; ok: 2xx with choices[0].message.content = content.  message is
\* the text of the error a failure raises in the handler.
ProviderReplies ==
  {[kind |-> k, content |-> Undefined, message |-> m] :
      k \in {"network", "http_error", "malformed", "stall"}, m \in ErrorTexts}
  \cup {[kind |-> "ok", content |-> c, message |-> ""] :
            c \in Contents \cup {""}}

\* The bodies a caller sends in the exchanges: prompt and history.
PlainBody == <<"hello", <<>>>>
RequestBodies == {PlainBody, <<Undefined, <<>>>>, <<"hello", <<NullEntry>>>>}

\* The handler is entered: identity and day are read, db.get is submitted.
Receive(e, ip, prompt, hist) ==
  /\ ex[e].pc = "idle"
  /\ IF e = 1 THEN TRUE ELSE ex[e - 1].pc # "idle"
  /\ ex' = [ex EXCEPT ![e] = [@ EXCEPT !.pc = "get", !.ip = ip,
                                       !.today = DayOf(clock),
                                       !.prompt = prompt, !.hist = hist]]
  /\ UNCHANGED <<variant, clock, requests, history, admitted, credits, asm,
                 devMode, recent>>

\* SQLite executes the quota SELECT: it fails, or reads the table as it is now.
QuotaReadExec(e, ok) ==
  /\ ex[e].pc = "get"
  /\ \E row \in (IF ok THEN SelectFirst(requests, ex[e].ip, ex[e].today)
                        ELSE {<<>>}) :
        ex' = [ex EXCEPT ![e] = [@ EXCEPT !.pc = "got", !.err = ~ok,
                                             !.row = row]]
  /\ UNCHANGED <<variant, clock, requests, history, admitted, credits, asm,
                 devMode, recent>>

\* an off-by-one limit check: count > 10
LimitReachedOffByOne(count) == count > DAILY_LIMIT

\* count >= 10
LimitReached(count) == count >= DAILY_LIMIT

\* a callback that reserves a slot before it looks at the limit
QuotaCallbackServerWritesFirst(x) ==
  IF x.err THEN
    [Respond(x, 500, ErrorBody("Database error")) EXCEPT !.pc = "done"]
  ELSE IF LimitReached(CountOf(x.row)) THEN
    [Respond(x, 429, ErrorBody("limit")) EXCEPT
       !.pc = "done", !.count = CountOf(x.row), !.write = "pending"]
  ELSE
    [x EXCEPT !.pc = "fetch", !.count = CountOf(x.row), !.write = "pending",
              !.messages = MessagesServer(x.hist, x.prompt),
              !.calls = @ + 1]

\* server.js: the db.get callback up to its first await.
QuotaCallbackServer(x) ==
  IF x.err THEN
    [Respond(x, 500, ErrorBody("Database error")) EXCEPT !.pc = "done"]
  ELSE IF LimitReached(CountOf(x.row)) THEN
    [Respond(x, 429, ErrorBody("limit")) EXCEPT
       !.pc = "done", !.count = CountOf(x.row)]
  ELSE
    [x EXCEPT !.pc = "fetch", !.count = CountOf(x.row), !.write = "pending",
              !.messages = MessagesServer(x.hist, x.prompt),
              !.calls = @ + 1]

\* part_001: the code after the awaited quota read, up to the awaited write.
QuotaCallbackPart001(x) ==
  IF x.err THEN
    [Respond(x, 500, CatchBody(StorageErrorText)) EXCEPT !.pc = "done"]
  ELSE IF LimitReached(CountOf(x.row)) THEN
    [Respond(x, 429, ErrorBody("limit")) EXCEPT
       !.pc = "done", !.count = CountOf(x.row)]
  ELSE
    [x EXCEPT !.pc = "run", !.count = CountOf(x.row), !.write = "pending"]

\* part_000 (in-memory): the db.get callback up to its await; the only
\* message is the prompt.
QuotaCallbackMemory(x) ==
  IF x.err THEN
    [Respond(x, 500, ErrorBody("Database error")) EXCEPT !.pc = "done"]
  ELSE IF LimitReached(CountOf(x.row)) THEN
    [Respond(x, 429, ErrorBody("limit")) EXCEPT
       !.pc = "done", !.count = CountOf(x.row)]
  ELSE
    [x EXCEPT !.pc = "fetch", !.count = CountOf(x.row), !.write = "pending",
              !.messages = <<Msg("user", x.prompt)>>, !.calls = @ + 1]

\* The ghost count of admissions follows the exchange's counter write.
Admit(adm, x, y) ==
  IF x.write = "none" /\ y.write = "pending"
  THEN [adm EXCEPT ![<<y.ip, y.today>>] = @ + 1]
  ELSE adm

QuotaCallback(e) ==
  /\ ex[e].pc = "got"
  /\ LET y == IF variant = "server_js" THEN QuotaCallbackServer(ex[e])
              ELSE IF variant = "part_001" THEN QuotaCallbackPart001(ex[e])
              ELSE QuotaCallbackMemory(ex[e])
     IN  /\ ex' = [ex EXCEPT ![e] = y]
         /\ admitted' = Admit(admitted, ex[e], y)
  /\ UNCHANGED <<variant, clock, requests, history, credits, asm,
                 devMode, recent>>

\* server.js: the write's callback only logs; the exchange does not wait.
AfterCounterWriteServer(x, ok) ==
  [x EXCEPT !.write = IF ok THEN "done" ELSE "failed"]

\* part_001: the awaited promise resolves on success only,
\*   (err) => err ? console.error(...) : resolve()
\* and then the messages are assembled and the provider is called.
AfterCounterWritePart001(x, ok) ==
  IF ~ok THEN [x EXCEPT !.write = "failed", !.pc = "hung"]
  ELSE IF AssemblyThrows(x.hist) THEN
    [Respond(x, 500, CatchBody(TypeErrorText)) EXCEPT
       !.write = "done", !.pc = "done"]
  ELSE [x EXCEPT !.write = "done", !.pc = "fetch",
                 !.messages = MessagesPart001(x.hist, x.prompt),
                 !.calls = @ + 1]

\* part_000 (in-memory): db.run is given no callback
AfterCounterWriteMemory(x, ok) ==
  [x EXCEPT !.write = IF ok THEN "done" ELSE "failed"]

\* SQLite executes the exchange's INSERT OR REPLACE of count + 1.
CounterWriteExec(e, ok) ==
  /\ ex[e].write = "pending"
  /\ requests' = IF ~ok THEN requests
                 ELSE IF variant = MemoryVariant
                 THEN InsertNoKey(requests, ex[e].ip, ex[e].count + 1,
                                  ex[e].today)
                 ELSE InsertOrReplace(requests, ex[e].ip, ex[e].count + 1,
                                      ex[e].today)
  /\ ex' = [ex EXCEPT ![e] = IF variant = "server_js"
                             THEN AfterCounterWriteServer(@, ok)
                             ELSE IF variant = "part_001"
                             THEN AfterCounterWritePart001(@, ok)
                             ELSE AfterCounterWriteMemory(@, ok)]
  /\ UNCHANGED <<variant, clock, history, admitted, credits, asm,
                 devMode, recent>>

\* What the exchange keeps of the provider's reply, for the properties: failed
\* (network, http_error, malformed, stall), no_content, or ok.
Outcome(reply) ==
  IF reply.kind # "ok" THEN "failed"
  ELSE IF reply.content \in Falsy THEN "no_content"
  ELSE "ok"

\* The success path of both pipelines: the history insert is submitted (not
\* awaited) and the response is sent.
Succeed(x, text, t) ==
  [Respond(x, 200, SuccessBody(text, x.count)) EXCEPT
     !.pc = "done", !.insert = "pending",
     !.entry = <<[ip |-> x.ip, prompt |-> x.prompt, response |-> text,
                  timestamp |-> t]>>]

\* server.js: everything after `await fetch`.  A throw here rejects the
\* promise of the async db.get callback, which nothing handles: the handler's
\* try/catch ended when db.get returned.  clearTimeout has run before
\* the body is read, so a stalled body is awaited for ever.
AfterFetchServer(x, reply, t) ==
  IF reply.kind = "stall" THEN
    [x EXCEPT !.pc = "hung", !.upstream = Outcome(reply)]
  ELSE IF reply.kind # "ok" \/ reply.content \in Falsy THEN
    [x EXCEPT !.pc = "unhandled", !.upstream = Outcome(reply)]
  ELSE [Succeed(x, reply.content, t) EXCEPT !.upstream = "ok"]

\* a catch block that gives the slot back by writing the old count again
AfterFetchPart001Rollback(x, reply, t) ==
  IF reply.kind # "ok" THEN
    [Respond(x, 500, ErrorBody("server error")) EXCEPT
       !.pc = "done", !.upstream = Outcome(reply),
       !.write = "pending", !.count = x.count - 1]
  ELSE [Succeed(x, reply.content, t) EXCEPT !.upstream = Outcome(reply)]

\* part_001: everything after `await fetch`, inside the try/catch.  The
\* content of choices[0].message is passed on as it is.
AfterFetchPart001(x, reply, t) ==
  IF reply.kind # "ok" THEN
    [Respond(x, 500, CatchBody(reply.message)) EXCEPT
       !.pc = "done", !.upstream = Outcome(reply)]
  ELSE [Succeed(x, reply.content, t) EXCEPT !.upstream = Outcome(reply)]

\* part_000 (in-memory): the code after `await fetch`, inside a try/catch of
\* its own.  There is no timeout, no check of the content and no history;
\* the catch answers res.status(500).json({ error: error.message }).
AfterFetchMemory(x, reply, t) ==
  IF reply.kind = "stall" THEN
    [x EXCEPT !.pc = "hung", !.upstream = Outcome(reply)]
  ELSE IF reply.kind # "ok" THEN
    [Respond(x, 500, ErrorBody(reply.message)) EXCEPT
       !.pc = "done", !.upstream = Outcome(reply)]
  ELSE [Respond(x, 200, SuccessBody(reply.content, x.count)) EXCEPT
          !.pc = "done", !.upstream = Outcome(reply)]

\* The provider call comes to an end (or to a stall).
ProviderReply(e, reply) ==
  /\ ex[e].pc = "fetch"
  /\ ex' = [ex EXCEPT ![e] = IF variant = "server_js"
                             THEN AfterFetchServer(@, reply, clock)
                             ELSE IF variant = "part_001"
                             THEN AfterFetchPart001(@, reply, clock)
                             ELSE AfterFetchMemory(@, reply, clock)]
  /\ UNCHANGED <<variant, clock, requests, history, admitted, credits, asm,
                 devMode, recent>>

\* SQLite executes the exchange's INSERT INTO history; an error is logged
\* (server.js) or dropped (part_001).
HistoryInsertExec(e, ok) ==
  /\ ex[e].insert = "pending"
  /\ history' = IF ok THEN InsertHistory(history, ex[e].entry[1]) ELSE history
  /\ ex' = [ex EXCEPT ![e].insert = IF ok THEN "done" ELSE "failed"]
  /\ UNCHANGED <<variant, clock, requests, admitted, credits, asm,
                 devMode, recent>>

(* ---- GET /api/credits ---- *)

NoCredits == [status |-> 0]

\* a status query that looks the identity up without the day
CreditsServerAnyDay(ip, day, ok, tbl) ==
  LET hit == {r \in tbl : r.ip = ip}
      used == IF hit = {} THEN 0 ELSE (CHOOSE r \in hit : TRUE).count
  IN  IF ~ok THEN [status |-> 500, ip |-> ip, day |-> day, failed |-> TRUE]
      ELSE [status |-> 200, ip |-> ip, day |-> day, failed |-> FALSE,
            used |-> used, remaining |-> DAILY_LIMIT - used]

\* server.js: a read error is answered 500
CreditsServer(ip, day, ok, tbl) ==
  IF ~ok THEN [status |-> 500, ip |-> ip, day |-> day, failed |-> TRUE]
  ELSE [status |-> 200, ip |-> ip, day |-> day, failed |-> FALSE,
        used |-> CountOf(SelectCount(tbl, ip, day)),
        remaining |-> DAILY_LIMIT - CountOf(SelectCount(tbl, ip, day))]

\* part_001: (err, row) => resolve(row || { count: 0 })
CreditsPart001(ip, day, ok, tbl) ==
  LET row == IF ok THEN SelectCount(tbl, ip, day) ELSE <<>>
  IN  [status |-> 200, ip |-> ip, day |-> day, failed |-> ~ok,
       used |-> CountOf(row), remaining |-> DAILY_LIMIT - CountOf(row)]

StatusQuery(ip, ok) ==
  /\ credits' = IF variant = "server_js"
                THEN CreditsServer(ip, DayOf(clock), ok, requests)
                ELSE CreditsPart001(ip, DayOf(clock), ok, requests)
  /\ UNCHANGED <<variant, clock, requests, history, ex, admitted, asm,
                 devMode, recent>>

(* ---- GET /api/history ---- *)

\* the ids (positions in the table) of an identity's rows
RowsOf(tbl, ip) == {i \in 1..Len(tbl) : tbl[i].ip = ip}

\* the rows of S with the greatest timestamp
Latest(tbl, S) ==
  {i \in S : \A j \in S : tbl[j].timestamp <= tbl[i].timestamp}

RECURSIVE OrderByTimestampDesc(_, _, _)
\* ORDER BY timestamp DESC LIMIT n over the rows S: every order SQLite may
\* return them in; rows of equal timestamp come in no particular order.
OrderByTimestampDesc(tbl, S, n) ==
  IF n = 0 \/ S = {} THEN {<<>>}
  ELSE UNION {{<<i>> \o q : q \in OrderByTimestampDesc(tbl, S \ {i}, n - 1)} :
                i \in Latest(tbl, S)}

\* SELECT prompt, response, timestamp
Selected(row) ==
  [prompt |-> row.prompt, response |-> row.response,
   timestamp |-> row.timestamp]

\* server.js: res.json(rows), or 500 on a read error;
\* part_001: (err, rows) => resolve(rows || [])
HistoryAnswer(v, ip, ok, tbl, ids) ==
  IF ok THEN [status |-> 200, ip |-> ip, ids |-> ids,
              rows |-> [j \in 1..Len(ids) |-> Selected(tbl[ids[j]])]]
  ELSE IF v = "server_js" THEN [status |-> 500, ip |-> ip]
  ELSE [status |-> 200, ip |-> ip, ids |-> <<>>, rows |-> <<>>]

HistoryQuery(ip, ok) ==
  /\ \E ids \in OrderByTimestampDesc(history, RowsOf(history, ip),
                                      HISTORY_LIMIT) :
        recent' = HistoryAnswer(variant, ip, ok, history, ids)
  /\ UNCHANGED <<variant, clock, requests, history, ex, admitted, credits, asm,
                 devMode>>

(* ---- POST /api/reset-counts ---- *)

NoneAdmitted == [k \in Identities \X Days |-> 0]

\* a reset that empties the history table together with the counters
ResetWithHistory(ok) ==
  /\ requests' = IF ok THEN DeleteRequests(requests) ELSE requests
  /\ history' = IF ok THEN <<>> ELSE history
  /\ admitted' = IF ok THEN NoneAdmitted ELSE admitted
  /\ UNCHANGED <<variant, clock, ex, credits, asm, devMode, recent>>

Reset(ok) ==
  /\ requests' = IF ok THEN DeleteRequests(requests) ELSE requests
  /\ admitted' = IF ok THEN NoneAdmitted ELSE admitted
  /\ UNCHANGED <<variant, clock, history, ex, credits, asm,
                 devMode, recent>>

(* ---- the host clock ---- *)

Tick ==
  /\ clock < MaxClock
  /\ clock' = clock + 1
  /\ UNCHANGED <<variant, requests, history, ex, admitted, credits, asm,
                 devMode, recent>>

(* ---- the system ---- *)

NoAssembly == [state |-> "none"]
NoRecent == [status |-> 0]

\* Counts a requests table can hold for one identity when the server starts
\* (the database file outlives the process): no row, or a row the pipeline
\* wrote.
StartCounts == {0} \cup (DAILY_LIMIT - 2)..DAILY_LIMIT
StartIdentity == "1.2.3.4"

StartTable(c) ==
  IF c = 0 THEN {} ELSE {[ip |-> StartIdentity, count |-> c, date |-> 0]}

Init ==
  /\ variant \in Variants
  /\ clock = 0
  /\ \E c \in StartCounts :
        /\ requests = StartTable(c)
        /\ admitted = [k \in Identities \X Days |->
                         IF k = <<StartIdentity, 0>> THEN c ELSE 0]
  /\ history = <<>>
  /\ ex = [e \in Exchanges |-> IdleExchange]
  /\ credits = NoCredits
  /\ asm = NoAssembly
  /\ devMode = FALSE
  /\ recent = NoRecent

\* The concurrent system: exchanges of plain requests interleave freely with
\* each other, with the store's failures and with resets, within one day.
Next ==
  \/ \E e \in Exchanges, ip \in Identities :
        Receive(e, ip, PlainBody[1], PlainBody[2])
  \/ \E e \in Exchanges, ok \in BOOLEAN : QuotaReadExec(e, ok)
  \/ \E e \in Exchanges : QuotaCallback(e)
  \/ \E e \in Exchanges, ok \in BOOLEAN : CounterWriteExec(e, ok)
  \/ \E e \in Exchanges, r \in ProviderReplies : ProviderReply(e, r)
  \/ \E e \in Exchanges, ok \in BOOLEAN : HistoryInsertExec(e, ok)
  \/ \E ok \in BOOLEAN : Reset(ok)

Spec == Init /\ [][Next]_vars

\* No exchange is under way and no statement of one is waiting to run.
Quiet(x) ==
  /\ x.pc \in {"idle", "done", "unhandled", "hung"}
  /\ x.write # "pending"
  /\ x.insert # "pending"

AllQuiet == \A e \in Exchanges : Quiet(ex[e])

\* The sequential system: requests of any body are handled one after another,
\* over several days, with status queries in between, on a store that does not
\* fail and is not reset.
NextSeq ==
  \/ \E e \in Exchanges, ip \in Identities, b \in RequestBodies :
        AllQuiet /\ Receive(e, ip, b[1], b[2])
  \/ \E e \in Exchanges : QuotaReadExec(e, TRUE)
  \/ \E e \in Exchanges : QuotaCallback(e)
  \/ \E e \in Exchanges : CounterWriteExec(e, TRUE)
  \/ \E e \in Exchanges, r \in ProviderReplies : ProviderReply(e, r)
  \/ \E e \in Exchanges : HistoryInsertExec(e, TRUE)
  \/ \E ip \in Identities : StatusQuery(ip, TRUE)
  \/ Tick

SpecSeq == Init /\ [][NextSeq]_vars

(* ---- every pipeline on a fresh store ---- *)

\* The server starts on an empty database, as any of the pipelines and in
\* either mode; the statements of the quota read may fail, the others run.
InitVariants ==
  /\ variant \in AllVariants
  /\ devMode \in BOOLEAN
  /\ clock = 0
  /\ requests = {}
  /\ admitted = NoneAdmitted
  /\ history = <<>>
  /\ ex = [e \in Exchanges |-> IdleExchange]
  /\ credits = NoCredits
  /\ asm = NoAssembly
  /\ recent = NoRecent

NextVariants ==
  \/ \E e \in Exchanges, ip \in Identities :
        Receive(e, ip, PlainBody[1], PlainBody[2])
  \/ \E e \in Exchanges, ok \in BOOLEAN : QuotaReadExec(e, ok)
  \/ \E e \in Exchanges : QuotaCallback(e)
  \/ \E e \in Exchanges : CounterWriteExec(e, TRUE)
  \/ \E e \in Exchanges, r \in ProviderReplies : ProviderReply(e, r)
  \/ \E e \in Exchanges : HistoryInsertExec(e, TRUE)
  \/ Reset(TRUE)

SpecVariants == InitVariants /\ [][NextVariants]_vars

(* ---- the status query on its own ---- *)

\* A requests table as the pipelines leave it behind: for every (identity,
\* day) no record, or one record with a count they wrote.
TableOf(f) ==
  {[ip |-> k[1], count |-> f[k], date |-> k[2]] :
      k \in {j \in DOMAIN f : f[j] # 0}}

InitCredits ==
  /\ variant \in Variants
  /\ devMode = FALSE
  /\ clock = 0
  /\ \E f \in [Identities \X Days -> StartCounts] :
        /\ requests = TableOf(f)
        /\ admitted = f
  /\ history = <<>>
  /\ ex = [e \in Exchanges |-> IdleExchange]
  /\ credits = NoCredits
  /\ asm = NoAssembly
  /\ recent = NoRecent

NextCredits ==
  \/ \E ip \in Identities : StatusQuery(ip, TRUE)
  \/ Tick

SpecCredits == InitCredits /\ [][NextCredits]_vars

(* ---- the history query on its own ---- *)

\* the prompt of the n-th row, so that no two rows read the same
Prompts == <<"q1", "q2", "q3", "q4", "q5", "q6", "q7", "q8">>

\* the row an exchange of ip leaves as the n-th of the table at time t
HistoryRow(ip, n, t) ==
  [ip |-> ip, prompt |-> Prompts[n], response |-> "hi there", timestamp |-> t]

RECURSIVE HistoryTables(_)
\* History tables of up to n rows as the exchanges leave them behind: the
\* rows carry the time their response came in, which does not go back from
\* one row to the next and can be the same for two rows.
HistoryTables(n) ==
  IF n = 0 THEN {<<>>}
  ELSE LET shorter == HistoryTables(n - 1)
           full == {h \in shorter : Len(h) = n - 1}
       IN  shorter \cup
           UNION {{Append(h, HistoryRow(ip, n, t)) :
                     ip \in Identities,
                     t \in (IF h = <<>> THEN 0
                            ELSE h[Len(h)].timestamp)..MaxClock} :
                  h \in full}

InitHistory ==
  /\ variant \in Variants
  /\ devMode = FALSE
  /\ clock = MaxClock
  /\ requests = {}
  /\ admitted = NoneAdmitted
  /\ history \in HistoryTables(MaxRows)
  /\ ex = [e \in Exchanges |-> IdleExchange]
  /\ credits = NoCredits
  /\ asm = NoAssembly
  /\ recent = NoRecent

\* One query is made on each table: the table does not change here, so a
\* second query has the answers of the first.
NextHistory ==
  \E ip \in Identities : recent = NoRecent /\ HistoryQuery(ip, TRUE)

SpecHistory == InitHistory /\ [][NextHistory]_vars

(* ---- conversation assembly on its own ---- *)

\* Entries a caller can put in the history array: two well-formed turns, a
\* turn without response, and null.
WellFormedTurns == {Turn("p1", "r1"), Turn("p2", "r2")}
HistoryEntries == WellFormedTurns \cup {Turn("p3", Undefined), NullEntry}

RECURSIVE SeqsUpTo(_, _)
SeqsUpTo(S, n) ==
  IF n = 0 THEN {<<>>}
  ELSE SeqsUpTo(S, n - 1)
         \cup {Append(q, x) : q \in {r \in SeqsUpTo(S, n - 1) : Len(r) = n - 1},
                              x \in S}

InitAssemble ==
  /\ variant \in Variants
  /\ clock = 0
  /\ requests = {}
  /\ admitted = NoneAdmitted
  /\ history = <<>>
  /\ ex = [e \in Exchanges |-> IdleExchange]
  /\ credits = NoCredits
  /\ devMode = FALSE
  /\ recent = NoRecent
  /\ \E h \in SeqsUpTo(HistoryEntries, MaxHistLen), p \in {"hello", Undefined} :
        asm = [state |-> "input", hist |-> h, prompt |-> p]

\* const messages = [...]: the array is built, or the build throws
Assemble ==
  /\ asm.state = "input"
  /\ asm' = IF variant = "part_001" /\ AssemblyThrows(asm.hist)
            THEN [asm EXCEPT !.state = "threw"]
            ELSE [state |-> "built", hist |-> asm.hist, prompt |-> asm.prompt,
                  messages |-> Messages(variant, asm.hist, asm.prompt)]
  /\ UNCHANGED <<variant, clock, requests, history, ex, admitted, credits,
                 devMode, recent>>

SpecAssemble == InitAssemble /\ [][Assemble]_vars

(* ======================= properties ======================= *)

StoredCount(i, d) == CountOf(SelectCount(requests, i, d))
Keys == Identities \X Days
Key(x) == <<x.ip, x.today>>
Terminal(x) == x.pc \in {"done", "unhandled", "hung"}
WasAdmitted(x) == x.write # "none"

\* C1: for one identity on one day no more than DAILY_LIMIT requests are
\* admitted between resets, however the quota reads and counter writes of
\* concurrent requests interleave; in particular two requests that both find
\* DAILY_LIMIT - 1 used slots are never both admitted.
C1_NoOverAdmission ==
  /\ \A k \in Keys : admitted[k] <= DAILY_LIMIT
  /\ \A e1, e2 \in Exchanges :
        (e1 # e2 /\ Key(ex[e1]) = Key(ex[e2])
           /\ WasAdmitted(ex[e1]) /\ WasAdmitted(ex[e2]))
        => ~(ex[e1].count = DAILY_LIMIT - 1 /\ ex[e2].count = DAILY_LIMIT - 1)

\* C2: with requests handled one after another on a store that neither fails
\* nor is reset, whenever no exchange is under way the stored count of every
\* (identity, day) equals the number of requests admitted for it; a status
\* query answers with that stored count; and a request that arrives when
\* DAILY_LIMIT requests were admitted is rejected with 429.
C2_SequentialCount ==
  [][ /\ AllQuiet' => \A k \in Keys : StoredCount(k[1], k[2])' = admitted'[k]
      /\ credits' # credits =>
            /\ credits'.status = 200
            /\ credits'.used = StoredCount(credits'.ip, credits'.day)
            /\ AllQuiet => credits'.used = admitted[<<credits'.ip, credits'.day>>]
      /\ \A e \in Exchanges :
            (ex[e].pc = "got" /\ ex'[e].pc # "got"
               /\ admitted[Key(ex[e])] = DAILY_LIMIT)
            => (ex'[e].status = 429 /\ ~WasAdmitted(ex'[e]))
    ]_vars

\* an identity used its last slot, was then rejected, and the status query
\* reports DAILY_LIMIT used
C2_Witness ==
  /\ AllQuiet
  /\ \E e1, e2 \in Exchanges :
        /\ ex[e1].status = 200 /\ ex[e1].count = DAILY_LIMIT - 1
        /\ ex[e2].status = 429 /\ Key(ex[e2]) = Key(ex[e1])
        /\ credits.status = 200 /\ credits.ip = ex[e1].ip
        /\ credits.day = ex[e1].today /\ credits.used = DAILY_LIMIT

\* C3: the callback of a request that read a count at or above DAILY_LIMIT
\* answers 429 once, leaves both tables and the admissions as they are, submits
\* no statement and calls no provider; and a rejected exchange never acts again.
C3_RejectedChangesNothing ==
  [][ \A e \in Exchanges :
        /\ (ex[e].pc = "got" /\ ~ex[e].err /\ ex'[e] # ex[e]
              /\ CountOf(ex[e].row) >= DAILY_LIMIT)
           => /\ ex'[e].pc = "done"
              /\ ex'[e].status = 429 /\ ex'[e].responses = 1
              /\ requests' = requests /\ history' = history
              /\ admitted' = admitted
              /\ ex'[e].write = "none" /\ ex'[e].insert = "none"
              /\ ex'[e].messages = <<>> /\ ex'[e].upstream = "none"
        /\ ex[e].status = 429 => ex'[e] = ex[e]
    ]_vars

\* a request was rejected while the stored count stands at DAILY_LIMIT
C3_Witness ==
  \E e \in Exchanges :
     /\ ex[e].status = 429
     /\ StoredCount(ex[e].ip, ex[e].today) = DAILY_LIMIT
     /\ history = <<>>

\* C4: every exchange that has come to rest has sent exactly one response,
\* and no exchange ever sends two.
C4_ExactlyOneResponse ==
  \A e \in Exchanges :
     /\ ex[e].responses <= 1
     /\ Terminal(ex[e]) => ex[e].responses = 1

\* C5: an exchange that has come to rest after its provider call failed, or
\* after one of its storage operations failed, has answered 500.
C5_FailureIsServerError ==
  \A e \in Exchanges :
     (Terminal(ex[e]) /\ ex[e].write # "pending" /\ ex[e].insert # "pending"
        /\ (ex[e].upstream = "failed" \/ ex[e].err
              \/ ex[e].write = "failed" \/ ex[e].insert = "failed"))
     => ex[e].status = 500

\* C6: the step in which an admitted exchange's provider call fails changes
\* neither table nor the exchange's counter write; such an exchange has
\* reserved a slot and never submits a history insert or any further
\* statement; and a counter write that runs sets the stored count to
\* countBefore + 1.
C6_FailureKeepsSlot ==
  [][ \A e \in Exchanges :
        /\ (ex[e].pc = "fetch" /\ ex'[e].upstream = "failed")
           => /\ requests' = requests /\ history' = history
              /\ admitted' = admitted
              /\ ex'[e].write = ex[e].write /\ ex'[e].count = ex[e].count
        /\ ex'[e].upstream = "failed"
           => (WasAdmitted(ex'[e]) /\ ex'[e].insert = "none")
        /\ (ex[e].write = "pending" /\ ex'[e].write = "done")
           => StoredCount(ex[e].ip, ex[e].today)' = ex[e].count + 1
        /\ (ex[e].upstream = "failed" /\ ex[e].write # "pending")
           => ex'[e] = ex[e]
    ]_vars

\* a provider call failed, the slot is counted and there is no history
C6_Witness ==
  \E e \in Exchanges :
     /\ ex[e].upstream = "failed" /\ Terminal(ex[e])
     /\ ex[e].write = "done"
     /\ StoredCount(ex[e].ip, ex[e].today) = ex[e].count + 1
     /\ history = <<>>

\* C7: an exchange whose quota read or counter write failed has no provider
\* call under way or answered, and once at rest it has answered 500.
C7_StorageFailureRejects ==
  \A e \in Exchanges :
     (ex[e].err \/ ex[e].write = "failed")
     => /\ ex[e].pc # "fetch"
        /\ ex[e].upstream = "none"
        /\ Terminal(ex[e]) => ex[e].status = 500

HistoryOf(ip) == {i \in 1..Len(history) : history[i].ip = ip}
Successes(ip) == {e \in Exchanges : ex[e].ip = ip /\ ex[e].status = 200}

\* C8: the step that takes a provider reply with content T answers 200 once
\* with {response: T, remaining: DAILY_LIMIT - (countBefore + 1)}, countBefore
\* being the count the quota read returned; with no record read the remaining
\* is 9; and when that exchange is the identity's only one, its statements
\* have run and no reset came after its admission, the stored count is 1 and
\* the identity has exactly one history row.
C8_SuccessPayload ==
  [][ \A e \in Exchanges :
        /\ \A r \in ProviderReplies :
              (ProviderReply(e, r) /\ r.kind = "ok" /\ r.content \notin Falsy)
              => /\ ex'[e].status = 200 /\ ex'[e].responses = 1
                 /\ ex'[e].body =
                      [response |-> r.content,
                       remaining |-> DAILY_LIMIT - (CountOf(ex[e].row) + 1)]
                 /\ ex[e].row = <<>> => ex'[e].body.remaining = 9
        /\ (/\ ex'[e].status = 200 /\ ex'[e].row = <<>>
            /\ ex'[e].write = "done" /\ ex'[e].insert = "done"
            /\ admitted'[Key(ex'[e])] = 1
            /\ \A o \in Exchanges \ {e} : ex'[o].ip # ex'[e].ip)
           => /\ StoredCount(ex[e].ip, ex[e].today)' = 1
              /\ Cardinality(HistoryOf(ex[e].ip))' = 1
    ]_vars

\* the first request of the day succeeded: remaining 9, count 1, one row
C8_Witness ==
  \E e \in Exchanges :
     /\ ex[e].status = 200 /\ ex[e].row = <<>>
     /\ ex[e].body = [response |-> "hi there", remaining |-> 9]
     /\ ex[e].write = "done" /\ ex[e].insert = "done"
     /\ StoredCount(ex[e].ip, ex[e].today) = 1
     /\ Cardinality(HistoryOf(ex[e].ip)) = 1

\* C9: when no exchange is under way and no statement is waiting, every
\* identity has as many history rows as success responses were sent to it.
C9_HistoryPerSuccess ==
  AllQuiet =>
    \A ip \in Identities :
       Cardinality(HistoryOf(ip)) = Cardinality(Successes(ip))

WellFormed(h) == \A i \in 1..Len(h) : h[i] \in WellFormedTurns

\* C10: for a history of n well-formed turns and a prompt p the assembly
\* does not throw and yields the system persona, then the user and assistant
\* messages of the last min(n, 3) turns, oldest first, then the user message
\* for p: 2 * min(n, 3) + 2 messages in all.
C10_AssemblyOrder ==
  (asm.state \in {"built", "threw"} /\ WellFormed(asm.hist)
     /\ asm.prompt \notin Falsy)
  => /\ asm.state = "built"
     /\ LET n == Len(asm.hist)
            k == Min(n, 3)
            m == asm.messages
        IN  /\ Len(m) = 2 * k + 2
            /\ m[1] = [role |-> "system", content |-> systemPrompt]
            /\ \A j \in 1..k :
                  /\ m[2 * j] = [role |-> "user",
                                 content |-> asm.hist[n - k + j].prompt]
                  /\ m[2 * j + 1] = [role |-> "assistant",
                                     content |-> asm.hist[n - k + j].response]
            /\ m[2 * k + 2] = [role |-> "user", content |-> asm.prompt]

\* four turns went in, the oldest differing from the next, and eight
\* messages came out
C10_Witness ==
  /\ asm.state = "built"
  /\ WellFormed(asm.hist) /\ Len(asm.hist) = 4
  /\ asm.hist[1] # asm.hist[2]
  /\ asm.prompt = "hello"
  /\ Len(asm.messages) = 8
  /\ asm.messages[2].content = asm.hist[2].prompt

\* the text a missing field stands for
TextOr(v) == IF v \in {Undefined, Null} THEN "" ELSE v
EntryPrompt(h) == IF h.kind = "null" THEN "" ELSE TextOr(h.prompt)
EntryResponse(h) == IF h.kind = "null" THEN "" ELSE TextOr(h.response)

\* C11: whatever the entries of the history are (turns, turns with a missing
\* text, entries that are no turn at all), the assembly does not throw and
\* every one of the last 3 entries yields exactly two messages, user then
\* assistant, a missing text standing as the empty string: 2 * min(n, 3) + 2
\* messages in all.
C11_PairAlignment ==
  asm.state \in {"built", "threw"}
  => /\ asm.state = "built"
     /\ LET n == Len(asm.hist)
            k == Min(n, 3)
            m == asm.messages
        IN  /\ Len(m) = 2 * k + 2
            /\ \A j \in 1..k :
                  /\ m[2 * j] = [role |-> "user",
                                 content |-> EntryPrompt(asm.hist[n - k + j])]
                  /\ m[2 * j + 1] =
                       [role |-> "assistant",
                        content |-> EntryResponse(asm.hist[n - k + j])]

\* C12: an exchange whose provider answered with a success status and no
\* (or empty) content ends with a 500 response and submits no history insert;
\* and no 200 response carries a null, undefined or empty response text.
C12_ContentValidated ==
  \A e \in Exchanges :
     /\ ex[e].upstream = "no_content"
        => /\ ex[e].insert = "none"
           /\ Terminal(ex[e]) => ex[e].status = 500
     /\ ex[e].status = 200 => ex[e].body.response \notin Falsy

\* C13: no exchange issues more than one provider call, and no exchange is
\* left waiting on its provider call for ever: a call that does not complete
\* (its body included) is cancelled by the timeout and the exchange goes on to
\* its failure.
C13_OneCallWithTimeout ==
  \A e \in Exchanges :
     /\ ex[e].calls <= 1
     /\ ~(ex[e].pc = "hung" /\ ex[e].calls = 1)

\* C14: a reset leaves no record, and from then on the stored count of every
\* (identity, day) is at most the number of requests admitted for it since the
\* reset, so that the first request admitted after a reset leaves a count of
\* 1, also when requests were in flight at the reset.
C14_ResetRestartsCount ==
  \A k \in Keys : StoredCount(k[1], k[2]) <= admitted[k]

\* C18: a request whose prompt is absent never gets as far as the provider:
\* no call is issued for it, and once at rest it was answered with a client
\* error.
C18_MissingPromptRejected ==
  \A e \in Exchanges :
     (ex[e].pc # "idle" /\ ex[e].prompt \in Falsy)
     => /\ ex[e].calls = 0
        /\ Terminal(ex[e]) => ex[e].status \in 400..499

\* C20: the provider call of an exchange is under way only after its counter
\* write was committed, and a success response is sent only after the history
\* row was committed.
C20_CommitBeforeNextStep ==
  \A e \in Exchanges :
     /\ ex[e].calls > 0 => ex[e].write = "done"
     /\ ex[e].status = 200 => ex[e].insert = "done"

RecordsOf(k) == {r \in requests : r.ip = k[1] /\ r.date = k[2]}

\* C15: the requests table never holds two records for one (identity, day),
\* and a step that is not a reset never lowers the stored count of any
\* (identity, day).
C15_OneRecordNonDecreasing ==
  [][ /\ \A k \in Keys : Cardinality(RecordsOf(k))' <= 1
      /\ ~Reset(TRUE)
         => \A k \in Keys : StoredCount(k[1], k[2])' >= StoredCount(k[1], k[2])
    ]_vars

InternalTexts == ErrorTexts \cup {StorageErrorText, TypeErrorText}

\* C19: a 500 response carries the message of the internal failure in none
\* of its fields unless development mode is on; so with development mode off
\* the response is the same whatever that message was.
C19_DetailOnlyInDevMode ==
  \A e \in Exchanges :
     ex[e].status = 500
     => \A f \in DOMAIN ex[e].body :
           ex[e].body[f] \in InternalTexts => devMode

\* C16: a status query of identity i answers 200 with used equal to the
\* count of i's record for the current day, or 0 when i has no record for the
\* current day, and remaining = DAILY_LIMIT - used, so that used + remaining
\* = 10; and it leaves both tables as they are.
C16_StatusQuery ==
  [][ \A ip \in Identities :
        StatusQuery(ip, TRUE)
        => LET recs == RecordsOf(<<ip, DayOf(clock)>>)
           IN  /\ credits'.status = 200
               /\ recs = {} => credits'.used = 0
               /\ \A r \in recs : credits'.used = r.count
               /\ credits'.remaining = DAILY_LIMIT - credits'.used
               /\ credits'.used + credits'.remaining = 10
               /\ requests' = requests /\ history' = history
    ]_vars

\* on day 1 an identity with 10 used on day 0 and 9 used on day 1 is told
\* used 9, remaining 1
C16_Witness ==
  /\ credits.status = 200 /\ credits.day = 1
  /\ credits.used = 9 /\ credits.remaining = 1
  /\ \E r \in requests :
        r.ip = credits.ip /\ r.date = 0 /\ r.count = DAILY_LIMIT

RECURSIVE NewestFirst(_, _)
\* the n greatest ids of S, greatest first
NewestFirst(S, n) ==
  IF n = 0 \/ S = {} THEN <<>>
  ELSE LET top == CHOOSE i \in S : \A j \in S : j <= i
       IN  <<top>> \o NewestFirst(S \ {top}, n - 1)

\* C17: a history query of identity i with n stored rows answers with
\* exactly min(n, 5) entries, which are i's most recently created rows, the
\* newest first; no row of another identity is among them.
C17_HistoryQuery ==
  [][ \A ip \in Identities :
        HistoryQuery(ip, TRUE)
        => LET mine == RowsOf(history, ip)
               want == NewestFirst(mine, Min(Cardinality(mine), 5))
           IN  /\ recent'.status = 200
               /\ Len(recent'.rows) = Min(Cardinality(mine), 5)
               /\ \A j \in 1..Len(recent'.ids) :
                     history[recent'.ids[j]].ip = ip
               /\ recent'.rows = [j \in 1..Len(want) |->
                                    Selected(history[want[j]])]
    ]_vars

(* ---- two identities side by side ---- *)

\* The server starts on a table that holds today's record of either identity
\* (or none); the exchanges of the two identities interleave freely with each
\* other and with status and history queries; the store does not fail.
InitPair ==
  /\ variant \in Variants
  /\ devMode = FALSE
  /\ clock = 0
  /\ \E f \in [Identities \X Days -> StartCounts] :
        /\ \A k \in Identities \X Days : k[2] # 0 => f[k] = 0
        /\ requests = TableOf(f)
        /\ admitted = f
  /\ history = <<>>
  /\ ex = [e \in Exchanges |-> IdleExchange]
  /\ credits = NoCredits
  /\ asm = NoAssembly
  /\ recent = NoRecent

NextPair ==
  \/ \E e \in Exchanges, ip \in Identities :
        Receive(e, ip, PlainBody[1], PlainBody[2])
  \/ \E e \in Exchanges : QuotaReadExec(e, TRUE)
  \/ \E e \in Exchanges : QuotaCallback(e)
  \/ \E e \in Exchanges : CounterWriteExec(e, TRUE)
  \/ \E e \in Exchanges, r \in ProviderReplies : ProviderReply(e, r)
  \/ \E e \in Exchanges : HistoryInsertExec(e, TRUE)
  \/ \E ip \in Identities : StatusQuery(ip, TRUE)
  \/ \E ip \in Identities : HistoryQuery(ip, TRUE)

SpecPair == InitPair /\ [][NextPair]_vars

\* the quota records and the history entries of one identity
RecordsOfIdentity(tbl, b) == {r \in tbl : r.ip = b}
EntriesOfIdentity(tbl, b) == SelectSeq(tbl, LAMBDA r : r.ip = b)

\* C21: a step of a primary request of identity A leaves the quota records
\* and the history entries of every other identity as they were; a status or
\* history query changes no record and no entry; the quota read of a request
\* of A hands over A's own record of the day (or none when A has none); and
\* the request is admitted exactly when that record's count is below
\* DAILY_LIMIT, whatever the requests of the other identity do in between.
C21_CrossIdentityIndependence ==
  [][ /\ \A e \in Exchanges :
            ex'[e] # ex[e] =>
              \A b \in Identities \ {ex'[e].ip} :
                 /\ RecordsOfIdentity(requests', b)
                      = RecordsOfIdentity(requests, b)
                 /\ EntriesOfIdentity(history', b)
                      = EntriesOfIdentity(history, b)
      /\ (credits' # credits \/ recent' # recent) =>
            (requests' = requests /\ history' = history)
      /\ \A e \in Exchanges :
            (ex[e].pc = "get" /\ ex'[e].pc = "got") =>
               IF ex'[e].row = <<>>
               THEN \A r \in requests :
                       ~(r.ip = ex[e].ip /\ r.date = ex[e].today)
               ELSE /\ ex'[e].row[1] \in requests
                    /\ ex'[e].row[1].ip = ex[e].ip
                    /\ ex'[e].row[1].date = ex[e].today
      /\ \A e \in Exchanges :
            (ex[e].pc = "got" /\ ex'[e].pc # "got") =>
               (WasAdmitted(ex'[e]) <=> CountOf(ex[e].row) < DAILY_LIMIT)
    ]_vars

\* the requests of two identities ran side by side: one was admitted, answered
\* and recorded while the other, whose own record was full, was rejected; both
\* queries have been answered
C21_Witness ==
  /\ ex[1].ip # ex[2].ip
  /\ ex[1].status = 200 /\ ex[1].write = "done" /\ ex[1].insert = "done"
  /\ ex[2].status = 429 /\ ~WasAdmitted(ex[2])
  /\ credits.status = 200
  /\ recent.status = 200 /\ recent.rows # <<>>

\* C22: every step leaves the entries the history table already holds where
\* and as they are (the table only grows at its end), and a reset that
\* deletes quota records (the one step that changes the requests table
\* without an exchange moving) deletes all of them, of every identity and
\* day, and leaves the history table unchanged.
C22_HistoryAppendOnly ==
  [][ /\ Len(history') >= Len(history)
      /\ SubSeq(history', 1, Len(history)) = history
      /\ (ex' = ex /\ requests' # requests) =>
            (requests' = {} /\ history' = history)
    ]_vars

\* both requests were admitted, answered and recorded in the history, and a
\* reset after their counter writes has emptied the requests table while the
\* two entries are still there
C22_Witness ==
  /\ Len(history) = MaxExchanges
  /\ \A e \in Exchanges : ex[e].write = "done" /\ ex[e].insert = "done"
  /\ requests = {}

\* C23: in every reachable state every record of the requests table has a
\* count from 1 to DAILY_LIMIT, and the status query of either pipeline,
\* asked for any identity and day on the table as it is, reports a count in
\* 0..DAILY_LIMIT and a remaining that is not negative.
C23_CountInRange ==
  /\ \A r \in requests : r.count \in 1..DAILY_LIMIT
  /\ \A k \in Keys, ok \in BOOLEAN :
        /\ CreditsPart001(k[1], k[2], ok, requests).remaining
             \in 0..DAILY_LIMIT
        /\ ok => CreditsServer(k[1], k[2], ok, requests).remaining
                   \in 0..DAILY_LIMIT

\* a request read DAILY_LIMIT - 1, a reset came in between, and its counter
\* write then stored DAILY_LIMIT: the record is full although fewer than
\* DAILY_LIMIT requests were admitted since the reset
C23_Witness ==
  \E e \in Exchanges :
     /\ ex[e].write = "done"
     /\ ex[e].count = DAILY_LIMIT - 1
     /\ StoredCount(ex[e].ip, ex[e].today) = DAILY_LIMIT
     /\ admitted[Key(ex[e])] < DAILY_LIMIT

\* C24: when a request of an identity is rejected with 429, at least
\* DAILY_LIMIT requests of that identity and day were admitted since the last
\* completed reset (or since the start, when there was none).
C24_NoFalseRejection ==
  [][ \A e \in Exchanges :
         (ex[e].pc = "got" /\ ex'[e].pc = "done" /\ ex'[e].status = 429)
         => admitted[Key(ex[e])] >= DAILY_LIMIT
    ]_vars

====
